---- MODULE Spec2Model ----
(***************************************************************************)
(* Model of streamlit_parcelamento_app.py: the mapping parser, the CNPJ    *)
(* resolver, the section classifier analyze_text and the output assembly   *)
(* of main().  A Python str is a sequence of one-character strings; an     *)
(* uploaded PDF's bytes are an opaque value.                               *)
(***************************************************************************)
EXTENDS Integers, Sequences, FiniteSets, TLC

VARIABLES
    pc,               \* position of the run
    text,             \* analyze_text: its argument
    rf_parc,          \* analyze_text: first component of the result
    pgfn_parc,        \* analyze_text: second component of the result
    filename,         \* resolver: info.filename
    empresa,          \* resolver: the resolved company
    mapping_text,     \* main: the pasted mapping
    zip_file,         \* main: the uploaded archive, its entries in infolist() order
    mapping,          \* main: dict identifier -> company
    pos,              \* main: entries of zf.infolist() already visited
    results,          \* main: list of {empresa, rf, pgfn}
    matched_files,    \* main: list of (new_name, file_bytes)
    unmatched_files,  \* main: list of (info.filename, file_bytes)
    csv,              \* main: rows of df / the CSV, header excluded
    pdf_table,        \* generate_pdf: data, the rows handed to Table
    offered,          \* main: the download buttons shown
    error_shown,      \* main: st.error was called
    zip_out           \* main: entries of the output archive, in write order

vars == <<pc, text, rf_parc, pgfn_parc, filename, empresa, mapping_text, zip_file,
          mapping, pos, results, matched_files, unmatched_files, csv, pdf_table,
          offered, error_shown, zip_out>>

----------------------------------------------------------------------------
(* String literals of the program *)

TAB == "\t"
LF == "\n"
CR == "\r"

\* "Diagnóstico Fiscal na Receita Federal"
rf_title ==
    <<"D","i","a","g","n","ó","s","t","i","c","o"," ","F","i","s","c","a","l"," ","n",
      "a"," ","R","e","c","e","i","t","a"," ","F","e","d","e","r","a","l">>
\* "Diagnóstico Fiscal na Procuradoria-Geral da Fazenda Nacional"
pgfn_title ==
    <<"D","i","a","g","n","ó","s","t","i","c","o"," ","F","i","s","c","a","l"," ","n",
      "a"," ","P","r","o","c","u","r","a","d","o","r","i","a","-","G","e","r","a","l",
      " ","d","a"," ","F","a","z","e","n","d","a"," ","N","a","c","i","o","n","a","l">>
\* "EM PARCELAMENTO"
EM_PARCELAMENTO ==
    <<"E","M"," ","P","A","R","C","E","L","A","M","E","N","T","O">>
\* "BASE INDISPONÍVEL"
BASE_INDISPONIVEL ==
    <<"B","A","S","E"," ","I","N","D","I","S","P","O","N","Í","V","E","L">>
\* "Parcelamento"
Parcelamento ==
    <<"P","a","r","c","e","l","a","m","e","n","t","o">>
\* "Pendência - Parcelamento"
PENDENCIA_PARCELAMENTO ==
    <<"P","e","n","d","ê","n","c","i","a"," ","-"," ","P","a","r","c","e","l","a","m",
      "e","n","t","o">>
\* "Não foram detectadas pendências/exigibilidades suspensas"
NAO_DETECTADAS ==
    <<"N","ã","o"," ","f","o","r","a","m"," ","d","e","t","e","c","t","a","d","a","s",
      " ","p","e","n","d","ê","n","c","i","a","s","/","e","x","i","g","i","b","i","l",
      "i","d","a","d","e","s"," ","s","u","s","p","e","n","s","a","s">>
\* "Desconhecida"
Desconhecida ==
    <<"D","e","s","c","o","n","h","e","c","i","d","a">>
\* ".pdf"
DOT_PDF ==
    <<".","p","d","f">>
\* "renomeados/"
RENOMEADOS ==
    <<"r","e","n","o","m","e","a","d","o","s","/">>
\* "nao_encontrados/"
NAO_ENCONTRADOS ==
    <<"n","a","o","_","e","n","c","o","n","t","r","a","d","o","s","/">>

----------------------------------------------------------------------------
(* Python str primitives *)

\* the value None; no str equals it
None == <<"None">>

\* pat occurs in s at 0-based index i
MatchAt(s, pat, i) ==
    /\ i >= 0
    /\ i + Len(pat) <= Len(s)
    /\ \A k \in 1..Len(pat) : s[i + k] = pat[k]

\* s.find(pat): lowest index of an occurrence, -1 when there is none
Find(s, pat) ==
    LET at == {i \in 0..(Len(s) - Len(pat)) : MatchAt(s, pat, i)}
    IN  IF at = {} THEN -1 ELSE CHOOSE i \in at : \A j \in at : i <= j

\* pat in s
Contains(s, pat) == Find(s, pat) # -1

\* s[a:b] for a, b >= 0: empty when a >= b, clipped to len(s)
Slice(s, a, b) ==
    LET hi == IF b > Len(s) THEN Len(s) ELSE b
    IN  IF a >= hi THEN <<>> ELSE SubSeq(s, a + 1, hi)

\* s[a:] for a >= 0
SliceFrom(s, a) == Slice(s, a, Len(s))

\* characters str.splitlines() breaks a line at, among those the inputs here hold
LineBreaks == {LF, CR, "\f"}

\* characters str.strip() removes, among those the inputs here hold
Whitespace == {" ", TAB, LF, CR, "\f"}

\* \d on the characters the inputs here hold
IsDigit(c) == c \in {"0", "1", "2", "3", "4", "5", "6", "7", "8", "9"}

\* the k-th lowest element of a set of integers
Nth(S, k) == CHOOSE t \in S : Cardinality({u \in S : u < t}) = k - 1

\* s.splitlines(): "\r\n" is one line break, and no empty line follows the last break
SplitLines(s) ==
    LET starts == {i \in 1..Len(s) :
                      s[i] \in LineBreaks /\ ~(s[i] = LF /\ i > 1 /\ s[i - 1] = CR)}
        n == Cardinality(starts)
        stop(i) == IF s[i] = CR /\ i < Len(s) /\ s[i + 1] = LF THEN i + 1 ELSE i
        from(k) == IF k = 1 THEN 1 ELSE stop(Nth(starts, k - 1)) + 1
        broken == [k \in 1..n |-> SubSeq(s, from(k), Nth(starts, k) - 1)]
    IN  IF from(n + 1) > Len(s)
        THEN broken
        ELSE Append(broken, SubSeq(s, from(n + 1), Len(s)))

\* s.split(sep) for a one-character sep
Split(s, sep) ==
    LET at == {i \in 1..Len(s) : s[i] = sep}
        n == Cardinality(at)
        from(k) == IF k = 1 THEN 1 ELSE Nth(at, k - 1) + 1
        to(k) == IF k = n + 1 THEN Len(s) ELSE Nth(at, k) - 1
    IN  [k \in 1..(n + 1) |-> SubSeq(s, from(k), to(k))]

\* re.sub(r'\D', '', s)
DigitsOnly(s) == SelectSeq(s, IsDigit)

\* s.strip()
Strip(s) ==
    LET kept == {i \in 1..Len(s) : s[i] \notin Whitespace}
    IN  IF kept = {} THEN <<>>
        ELSE SubSeq(s, Nth(kept, 1), Nth(kept, Cardinality(kept)))

\* d[k] = v
DictSet(d, k, v) == [x \in DOMAIN d \cup {k} |-> IF x = k THEN v ELSE d[x]]

\* d.get(k, default)
DictGet(d, k, default) == IF k \in DOMAIN d THEN d[k] ELSE default

\* {}
NoDict == [k \in {} |-> <<>>]

----------------------------------------------------------------------------
(* main: the mapping parser *)

\* one iteration of the loop over mapping_text.splitlines(): raised is the
\* ValueError of unpacking a split that has not exactly two fields
ParseLine(m, line) ==
    IF \E i \in 1..Len(line) : line[i] = TAB
    THEN LET fields == Split(line, TAB)
         IN  IF Len(fields) # 2
             THEN [raised |-> TRUE, mapping |-> m]
             ELSE [raised |-> FALSE,
                   mapping |-> DictSet(m, DigitsOnly(fields[2]), Strip(fields[1]))]
    ELSE [raised |-> FALSE, mapping |-> m]

RECURSIVE ParseLines(_, _, _)
\* the whole loop from line i on; it ends at the first ValueError
ParseLines(lines, i, m) ==
    IF i > Len(lines) THEN [raised |-> FALSE, mapping |-> m]
    ELSE LET r == ParseLine(m, lines[i])
         IN  IF r.raised THEN r ELSE ParseLines(lines, i + 1, r.mapping)

----------------------------------------------------------------------------
(* main: the identifier resolver *)

\* the repetition count of \d{14}
CnpjDigits == 14

\* the 0-based indexes at which CnpjDigits consecutive digits start
DigitRuns(name) ==
    {i \in 0..(Len(name) - CnpjDigits) : \A k \in 1..CnpjDigits : IsDigit(name[i + k])}

\* mutant: the last match instead of the first
cnpj_last_match(name) ==
    IF DigitRuns(name) = {} THEN None
    ELSE LET i == Nth(DigitRuns(name), Cardinality(DigitRuns(name)))
         IN  SubSeq(name, i + 1, i + CnpjDigits)

\* match = re.search(r"(\d{14})", info.filename); match.group(1) if match else None
cnpj_of(name) ==
    IF DigitRuns(name) = {} THEN None
    ELSE LET i == Nth(DigitRuns(name), 1)
         IN  SubSeq(name, i + 1, i + CnpjDigits)

\* mapping.get(cnpj, "Desconhecida")
empresa_of(name, m) == DictGet(m, cnpj_of(name), Desconhecida)

----------------------------------------------------------------------------
(* analyze_text *)

\* mutant: text.rfind(rf_title) in place of text.find(rf_title)
rf_start_rfind(t) ==
    LET occ == {i \in 0..(Len(t) - Len(rf_title)) : MatchAt(t, rf_title, i)}
    IN  IF occ = {} THEN -1 ELSE CHOOSE i \in occ : \A j \in occ : j <= i

rf_start_of(t) == Find(t, rf_title)

pgfn_start_of(t) == Find(t, pgfn_title)

rf_section_of(t, rf_start, pgfn_start) ==
    IF rf_start # -1 /\ pgfn_start # -1 THEN Slice(t, rf_start, pgfn_start) ELSE <<>>

\* mutant: the PGFN rule reads the whole text once the PGFN title is found
pgfn_section_whole_text(t, pgfn_start) == IF pgfn_start # -1 THEN t ELSE <<>>

pgfn_section_of(t, pgfn_start) ==
    IF pgfn_start # -1 THEN SliceFrom(t, pgfn_start) ELSE <<>>

\* mutant: the "BASE INDISPONÍVEL" branch sets the flag
rf_parc_base_indisponivel(rf_section) ==
    LET found == Contains(rf_section, EM_PARCELAMENTO)
    IN  IF /\ ~found
           /\ Contains(rf_section, BASE_INDISPONIVEL)
           /\ Contains(rf_section, Parcelamento)
        THEN TRUE
        ELSE found

rf_parc_of(rf_section) ==
    LET found == Contains(rf_section, EM_PARCELAMENTO)
    IN  IF /\ ~found
           /\ Contains(rf_section, BASE_INDISPONIVEL)
           /\ Contains(rf_section, Parcelamento)
        THEN FALSE
        ELSE found

pgfn_parc_of(pgfn_section) ==
    LET found == Contains(pgfn_section, PENDENCIA_PARCELAMENTO)
    IN  IF ~found /\ Contains(pgfn_section, NAO_DETECTADAS)
        THEN FALSE
        ELSE found

analyze_text(t) ==
    LET rf_start == rf_start_of(t)
        pgfn_start == pgfn_start_of(t)
        rf_section == rf_section_of(t, rf_start, pgfn_start)
        pgfn_section == pgfn_section_of(t, pgfn_start)
    IN  <<rf_parc_of(rf_section), pgfn_parc_of(pgfn_section)>>

----------------------------------------------------------------------------
(* extract_text_from_bytes *)

\* PdfReader(BytesIO(file_bytes)).pages, each page by its extract_text(): the
\* documents the archives here are filled with
PdfPages(file_bytes) ==
    CASE file_bytes = "pdf_rf" ->
            <<rf_title \o EM_PARCELAMENTO, pgfn_title \o NAO_DETECTADAS>>
      [] file_bytes = "pdf_pgfn" ->
            <<rf_title \o BASE_INDISPONIVEL, None, pgfn_title \o PENDENCIA_PARCELAMENTO>>
      [] OTHER -> <<>>

RECURSIVE JoinPages(_)
\* text += page.extract_text() or ""; text += "\n"
JoinPages(pages) ==
    IF pages = <<>> THEN <<>>
    ELSE JoinPages(SubSeq(pages, 1, Len(pages) - 1))
             \o (IF pages[Len(pages)] = None THEN <<>> ELSE pages[Len(pages)])
             \o <<LF>>

extract_text_from_bytes(file_bytes) == JoinPages(PdfPages(file_bytes))

----------------------------------------------------------------------------
(* main: the loop over the archive and the outputs *)

UpperCase ==
    <<"A", "B", "C", "D", "E", "F", "G", "H", "I", "J", "K", "L", "M",
      "N", "O", "P", "Q", "R", "S", "T", "U", "V", "W", "X", "Y", "Z">>

LowerCase ==
    <<"a", "b", "c", "d", "e", "f", "g", "h", "i", "j", "k", "l", "m",
      "n", "o", "p", "q", "r", "s", "t", "u", "v", "w", "x", "y", "z">>

\* s.lower() on the characters the inputs here hold
Lower(s) ==
    [i \in 1..Len(s) |->
        IF \E k \in 1..Len(UpperCase) : UpperCase[k] = s[i]
        THEN LowerCase[CHOOSE k \in 1..Len(UpperCase) : UpperCase[k] = s[i]]
        ELSE s[i]]

\* s.endswith(suffix)
EndsWith(s, suffix) ==
    /\ Len(s) >= Len(suffix)
    /\ SubSeq(s, Len(s) - Len(suffix) + 1, Len(s)) = suffix

\* info.filename.lower().endswith('.pdf')
IsPdfEntry(info) == EndsWith(Lower(info.filename), DOT_PDF)

\* zf.read(name): ZipFile resolves a name to the last entry that bears it
ZipRead(zf, name) ==
    zf[CHOOSE i \in 1..Len(zf) :
           zf[i].filename = name /\ \A j \in (i + 1)..Len(zf) : zf[j].filename # name].data

\* "Sim" if flag else "Não"
SimNao(flag) == IF flag THEN "Sim" ELSE "Não"

\* the dict appended to results for one .pdf entry
result_of(info, zf, m) ==
    LET flags == analyze_text(extract_text_from_bytes(ZipRead(zf, info.filename)))
    IN  [empresa |-> empresa_of(info.filename, m), rf |-> flags[1], pgfn |-> flags[2]]

\* [r for r in results if r["empresa"] != "Desconhecida"]
known_results_of(rs) == SelectSeq(rs, LAMBDA r : r.empresa # Desconhecida)

\* the rows of df, which to_csv writes one a line
dataframe_rows(known) ==
    [i \in 1..Len(known) |->
        [Empresa |-> known[i].empresa,
         ParcelamentoRF |-> SimNao(known[i].rf),
         ParcelamentoPGFN |-> SimNao(known[i].pgfn)]]

\* generate_pdf: data, the header row and one row a result
pdf_data(known) ==
    <<<<"Empresa", "Parcelamento RF", "Parcelamento PGFN">>>>
        \o [i \in 1..Len(known) |->
               <<known[i].empresa, SimNao(known[i].rf), SimNao(known[i].pgfn)>>]

\* mutant: without the try/except the exception of generate_pdf ends the run
pc_after_pdf_no_handler(raised) == IF raised THEN "aborted" ELSE "zip"

\* where main goes on after the try/except around generate_pdf
pc_after_pdf(raised) == "zip"

\* mutant: an archive that keeps one entry a name, the last written
zip_written_dedup(matched, unmatched) ==
    LET all == [i \in 1..Len(matched) |->
                   [name |-> RENOMEADOS \o matched[i][1], data |-> matched[i][2]]]
               \o [i \in 1..Len(unmatched) |->
                      [name |-> NAO_ENCONTRADOS \o unmatched[i][1],
                       data |-> unmatched[i][2]]]
        last == {i \in 1..Len(all) : \A j \in (i + 1)..Len(all) : all[j].name # all[i].name}
    IN  [k \in 1..Cardinality(last) |-> all[Nth(last, k)]]

\* the entries zout.writestr appends: a name already written is written again
zip_written(matched, unmatched) ==
    [i \in 1..Len(matched) |->
        [name |-> RENOMEADOS \o matched[i][1], data |-> matched[i][2]]]
    \o [i \in 1..Len(unmatched) |->
           [name |-> NAO_ENCONTRADOS \o unmatched[i][1], data |-> unmatched[i][2]]]

----------------------------------------------------------------------------
(* Bounds and input alphabets *)

MaxChunks == 4

\* fragments a report text is concatenated from
TextChunks ==
    {rf_title, pgfn_title, EM_PARCELAMENTO, PENDENCIA_PARCELAMENTO,
     BASE_INDISPONIVEL, NAO_DETECTADAS}

MaxLines == 3

\* 'Acme Corp\t11.222.333/0001-44\n'
LINE_ACME ==
    <<"A","c","m","e"," ","C","o","r","p",TAB,"1","1",".","2","2","2",".","3","3","3",
      "/","0","0","0","1","-","4","4",LF>>
\* ' Beta \t22333444000155\r\n'
LINE_BETA ==
    <<" ","B","e","t","a"," ",TAB,"2","2","3","3","3","4","4","4","0","0","0","1","5",
      "5",CR,LF>>
\* 'Zeta\t11222333000144\n'
LINE_ZETA ==
    <<"Z","e","t","a",TAB,"1","1","2","2","2","3","3","3","0","0","0","1","4","4",LF>>
\* 'sem tab\n'
LINE_NO_TAB ==
    <<"s","e","m"," ","t","a","b",LF>>
\* 'Zeta\tLtda\t11222333000144\n'
LINE_TWO_TABS ==
    <<"Z","e","t","a",TAB,"L","t","d","a",TAB,"1","1","2","2","2","3","3","3","0","0",
      "0","1","4","4",LF>>
\* 'Acme Corp\t22.333.444/0001-55\n'
LINE_ACME_2 ==
    <<"A","c","m","e"," ","C","o","r","p",TAB,"2","2",".","3","3","3",".","4","4","4",
      "/","0","0","0","1","-","5","5",LF>>
\* 'Desconhecida\t11222333000144\n'
LINE_SENTINEL ==
    <<"D","e","s","c","o","n","h","e","c","i","d","a",TAB,"1","1","2","2","2","3","3",
      "3","0","0","0","1","4","4",LF>>

\* lines, each with its line break, a pasted mapping is concatenated from
ParseLineChoices == {LINE_ACME, LINE_BETA, LINE_ZETA, LINE_NO_TAB, LINE_TWO_TABS}

MaxNameChunks == 3

\* "11222333000144"
CNPJ_ACME ==
    <<"1","1","2","2","2","3","3","3","0","0","0","1","4","4">>
\* "22333444000155"
CNPJ_BETA ==
    <<"2","2","3","3","3","4","4","4","0","0","0","1","5","5">>
\* "9"
DIGIT_9 ==
    <<"9">>
\* "_"
UNDERSCORE ==
    <<"_">>

\* fragments a filename is concatenated from
NameChunks == {CNPJ_ACME, CNPJ_BETA, DIGIT_9, UNDERSCORE}

MaxMapLines == 2

MaxEntries == 2

\* "11222333000144_report.pdf"
NAME_ACME ==
    <<"1","1","2","2","2","3","3","3","0","0","0","1","4","4","_","r","e","p","o","r",
      "t",".","p","d","f">>
\* "r22333444000155.PDF"
NAME_BETA ==
    <<"r","2","2","3","3","3","4","4","4","0","0","0","1","5","5",".","P","D","F">>
\* "sem_cnpj.pdf"
NAME_NO_CNPJ ==
    <<"s","e","m","_","c","n","p","j",".","p","d","f">>
\* "notas.txt"
NAME_TXT ==
    <<"n","o","t","a","s",".","t","x","t">>

\* lines a pasted mapping of a whole run is concatenated from
MapLineChoices == {LINE_ACME, LINE_ACME_2, LINE_SENTINEL}

\* entries an uploaded archive is filled with
EntryChoices ==
    {[filename |-> NAME_ACME, data |-> "pdf_rf"],
     [filename |-> NAME_BETA, data |-> "pdf_pgfn"],
     [filename |-> NAME_NO_CNPJ, data |-> "pdf_rf"],
     [filename |-> NAME_NO_CNPJ, data |-> "pdf_pgfn"],
     [filename |-> NAME_TXT, data |-> "pdf_rf"]}

RECURSIVE SeqsUpTo(_, _)
\* all sequences of at most n elements of S
SeqsUpTo(S, n) ==
    IF n = 0 THEN {<<>>}
    ELSE LET shorter == SeqsUpTo(S, n - 1)
         IN  shorter \cup {Append(q, x) : q \in shorter, x \in S}

RECURSIVE Concats(_, _)
\* all concatenations of at most n elements of parts
Concats(parts, n) ==
    IF n = 0 THEN {<<>>}
    ELSE LET shorter == Concats(parts, n - 1)
         IN  shorter \cup {s \o p : s \in shorter, p \in parts}

Texts == Concats(TextChunks, MaxChunks)

ParseTexts == Concats(ParseLineChoices, MaxLines)

Filenames == Concats(NameChunks, MaxNameChunks)

MappingTexts == Concats(MapLineChoices, MaxMapLines)

Archives == SeqsUpTo(EntryChoices, MaxEntries)

\* the mappings the resolver is tried with, each parsed from a pasted text
ResolveMappings ==
    {ParseLines(SplitLines(t), 1, NoDict).mapping :
        t \in {<<>>, LINE_ACME, LINE_ACME \o LINE_BETA, LINE_SENTINEL}}

----------------------------------------------------------------------------
(* Values of the variables a specification does not use *)

IdleAnalyze == text = <<>> /\ rf_parc = FALSE /\ pgfn_parc = FALSE

IdleResolve == filename = <<>> /\ empresa = <<>>

IdleParse == mapping_text = <<>> /\ mapping = NoDict /\ pos = 0

IdleRun ==
    /\ zip_file = <<>>
    /\ results = <<>>
    /\ matched_files = <<>>
    /\ unmatched_files = <<>>
    /\ csv = <<>>
    /\ pdf_table = <<>>
    /\ offered = {}
    /\ error_shown = FALSE
    /\ zip_out = <<>>

runVars ==
    <<zip_file, results, matched_files, unmatched_files, csv, pdf_table, offered,
      error_shown, zip_out>>

----------------------------------------------------------------------------
(* Specification of one run of main() *)

Init ==
    /\ pc = "start"
    /\ mapping_text \in MappingTexts
    /\ zip_file \in Archives
    /\ mapping = NoDict
    /\ pos = 0
    /\ results = <<>>
    /\ matched_files = <<>>
    /\ unmatched_files = <<>>
    /\ csv = <<>>
    /\ pdf_table = <<>>
    /\ offered = {}
    /\ error_shown = FALSE
    /\ zip_out = <<>>
    /\ IdleAnalyze
    /\ IdleResolve

pureVars == <<text, rf_parc, pgfn_parc, filename, empresa>>

\* "if zip_file and mapping_text" is false: the script shows the two inputs only
NothingPasted ==
    /\ pc = "start"
    /\ mapping_text = <<>>
    /\ pc' = "idle"
    /\ UNCHANGED <<mapping_text, zip_file, mapping, pos, results, matched_files,
                   unmatched_files, csv, pdf_table, offered, error_shown, zip_out,
                   pureVars>>

\* the mapping is read; a ValueError of the unpacking ends the run
ReadMapping ==
    /\ pc = "start"
    /\ mapping_text # <<>>
    /\ LET r == ParseLines(SplitLines(mapping_text), 1, NoDict)
       IN  IF r.raised
           THEN pc' = "aborted" /\ UNCHANGED mapping
           ELSE pc' = "loop" /\ mapping' = r.mapping
    /\ UNCHANGED <<mapping_text, zip_file, pos, results, matched_files,
                   unmatched_files, csv, pdf_table, offered, error_shown, zip_out,
                   pureVars>>

\* one iteration of "for info in zf.infolist()"
ProcessEntry ==
    /\ pc = "loop"
    /\ pos < Len(zip_file)
    /\ LET info == zip_file[pos + 1]
           file_bytes == ZipRead(zip_file, info.filename)
           r == result_of(info, zip_file, mapping)
       IN  IF IsPdfEntry(info)
           THEN /\ results' = Append(results, r)
                /\ IF r.empresa # Desconhecida
                   THEN /\ matched_files' =
                             Append(matched_files, <<r.empresa \o DOT_PDF, file_bytes>>)
                        /\ UNCHANGED unmatched_files
                   ELSE /\ unmatched_files' =
                             Append(unmatched_files, <<info.filename, file_bytes>>)
                        /\ UNCHANGED matched_files
           ELSE UNCHANGED <<results, matched_files, unmatched_files>>
    /\ pos' = pos + 1
    /\ UNCHANGED <<pc, mapping_text, zip_file, mapping, csv, pdf_table, offered,
                   error_shown, zip_out, pureVars>>

\* the table is shown and the CSV offered
ShowResults ==
    /\ pc = "loop"
    /\ pos = Len(zip_file)
    /\ csv' = dataframe_rows(known_results_of(results))
    /\ offered' = offered \cup {"csv"}
    /\ pc' = "pdf"
    /\ UNCHANGED <<mapping_text, zip_file, mapping, pos, results, matched_files,
                   unmatched_files, pdf_table, error_shown, zip_out, pureVars>>

\* generate_pdf returns and the PDF is offered
GeneratePdf ==
    /\ pc = "pdf"
    /\ pdf_table' = pdf_data(known_results_of(results))
    /\ offered' = offered \cup {"pdf"}
    /\ pc' = pc_after_pdf(FALSE)
    /\ UNCHANGED <<mapping_text, zip_file, mapping, pos, results, matched_files,
                   unmatched_files, csv, error_shown, zip_out, pureVars>>

\* generate_pdf raises while the document is rendered, after data was filled;
\* "except Exception" shows the error
GeneratePdfRaises ==
    /\ pc = "pdf"
    /\ pdf_table' = pdf_data(known_results_of(results))
    /\ error_shown' = TRUE
    /\ pc' = pc_after_pdf(TRUE)
    /\ UNCHANGED <<mapping_text, zip_file, mapping, pos, results, matched_files,
                   unmatched_files, csv, offered, zip_out, pureVars>>

\* the output archive is written and offered
BuildZip ==
    /\ pc = "zip"
    /\ zip_out' = zip_written(matched_files, unmatched_files)
    /\ offered' = offered \cup {"zip"}
    /\ pc' = "done"
    /\ UNCHANGED <<mapping_text, zip_file, mapping, pos, results, matched_files,
                   unmatched_files, csv, pdf_table, error_shown, pureVars>>

Next ==
    \/ NothingPasted
    \/ ReadMapping
    \/ ProcessEntry
    \/ ShowResults
    \/ GeneratePdf
    \/ GeneratePdfRaises
    \/ BuildZip

Spec == Init /\ [][Next]_vars

----------------------------------------------------------------------------
(* Specification of analyze_text on its own *)

InitAnalyze ==
    /\ pc = "analyze_call"
    /\ text \in Texts
    /\ rf_parc = FALSE
    /\ pgfn_parc = FALSE
    /\ IdleResolve
    /\ IdleParse
    /\ IdleRun

AnalyzeText ==
    /\ pc = "analyze_call"
    /\ LET flags == analyze_text(text)
       IN  rf_parc' = flags[1] /\ pgfn_parc' = flags[2]
    /\ pc' = "analyze_done"
    /\ UNCHANGED <<text, filename, empresa, mapping_text, mapping, pos, runVars>>

NextAnalyze == AnalyzeText

SpecAnalyze == InitAnalyze /\ [][NextAnalyze]_vars

----------------------------------------------------------------------------
(* Specification of the mapping parser on its own, one line a step *)

InitParse ==
    /\ pc = "parse"
    /\ mapping_text \in ParseTexts
    /\ mapping = NoDict
    /\ pos = 0
    /\ IdleAnalyze
    /\ IdleResolve
    /\ IdleRun

\* one iteration of "for line in mapping_text.splitlines()"
ParseNextLine ==
    /\ pc = "parse"
    /\ pos < Len(SplitLines(mapping_text))
    /\ LET r == ParseLine(mapping, SplitLines(mapping_text)[pos + 1])
       IN  IF r.raised
           THEN pc' = "parse_raised" /\ UNCHANGED <<mapping, pos>>
           ELSE pc' = "parse" /\ mapping' = r.mapping /\ pos' = pos + 1
    /\ UNCHANGED <<mapping_text, text, rf_parc, pgfn_parc, filename, empresa, runVars>>

\* the loop is exhausted
ParseEnd ==
    /\ pc = "parse"
    /\ pos = Len(SplitLines(mapping_text))
    /\ pc' = "parse_done"
    /\ UNCHANGED <<mapping_text, mapping, pos, text, rf_parc, pgfn_parc, filename,
                   empresa, runVars>>

NextParse == ParseNextLine \/ ParseEnd

SpecParse == InitParse /\ [][NextParse]_vars

----------------------------------------------------------------------------
(* Specification of the identifier resolver on its own *)

InitResolve ==
    /\ pc = "resolve_call"
    /\ filename \in Filenames
    /\ mapping \in ResolveMappings
    /\ empresa = <<>>
    /\ mapping_text = <<>>
    /\ pos = 0
    /\ IdleAnalyze
    /\ IdleRun

ResolveCompany ==
    /\ pc = "resolve_call"
    /\ empresa' = empresa_of(filename, mapping)
    /\ pc' = "resolve_done"
    /\ UNCHANGED <<filename, mapping, mapping_text, pos, text, rf_parc, pgfn_parc,
                   runVars>>

NextResolve == ResolveCompany

SpecResolve == InitResolve /\ [][NextResolve]_vars

----------------------------------------------------------------------------
(* Occurrences, stated by position *)

\* the 0-based indexes at which pat occurs in s
Occ(s, pat) == {i \in 0..(Len(s) - Len(pat)) : MatchAt(s, pat, i)}

\* the lowest element of a non-empty set of integers
Lowest(S) == CHOOSE i \in S : \A j \in S : i <= j

Done == pc = "analyze_done"

S1 == Lowest(Occ(text, rf_title))

S2 == Lowest(Occ(text, pgfn_title))

\* some RF title is followed by some "EM PARCELAMENTO" that ends at or before k
TitleThenParcelamentoBefore(k) ==
    \E i \in Occ(text, rf_title) :
        \E j \in Occ(text, EM_PARCELAMENTO) :
            /\ i + Len(rf_title) <= j
            /\ j + Len(EM_PARCELAMENTO) <= k

\* C3 as stated: the RF flag is true whenever some RF title is followed by some
\* "EM PARCELAMENTO" that is followed by some PGFN title, whatever else the text
\* holds (earlier occurrences of either title included).
C3_AnyOccurrence ==
    (Done /\ \E k \in Occ(text, pgfn_title) : TitleThenParcelamentoBefore(k))
        => rf_parc

\* C3 amended: the RF flag is true whenever some RF title is followed by some
\* "EM PARCELAMENTO" that is followed by the first PGFN title of the text;
\* earlier RF titles do not matter, an earlier PGFN title does.
C3_FirstPgfnTitle ==
    (/\ Done
     /\ Occ(text, pgfn_title) # {}
     /\ TitleThenParcelamentoBefore(S2))
        => rf_parc

C3_Witness ==
    /\ Done
     /\ Cardinality(Occ(text, rf_title)) >= 2
     /\ Occ(text, pgfn_title) # {}
     /\ TitleThenParcelamentoBefore(S2)
     /\ rf_parc

\* C4: the PGFN flag is true exactly when the PGFN title occurs and
\* "Pendência - Parcelamento" occurs at or after the first PGFN title; the RF
\* title and the text before the PGFN title play no part.
C4_PgfnFlag ==
    Done =>
        (pgfn_parc <=>
            /\ Occ(text, pgfn_title) # {}
            /\ \E j \in Occ(text, PENDENCIA_PARCELAMENTO) : j >= S2)

\* "Pendência - Parcelamento" only before the PGFN title, the "Não foram
\* detectadas" sentence inside the PGFN section: the flag is false
C4_Witness ==
    /\ Done
    /\ Occ(text, pgfn_title) # {}
    /\ Occ(text, PENDENCIA_PARCELAMENTO) # {}
    /\ \A j \in Occ(text, PENDENCIA_PARCELAMENTO) : j < S2
    /\ \E j \in Occ(text, NAO_DETECTADAS) : j >= S2
    /\ ~pgfn_parc

\* C9: the RF flag is true exactly when both titles occur and "EM PARCELAMENTO"
\* lies inside text[S1:S2], S1 and S2 the first occurrences of the two titles; so
\* it is false when a title is missing or S1 >= S2, and "BASE INDISPONÍVEL" with
\* "Parcelamento" changes nothing.
C9_RfFlag ==
    Done =>
        /\ rf_parc <=>
            /\ Occ(text, rf_title) # {}
            /\ Occ(text, pgfn_title) # {}
            /\ \E j \in Occ(text, EM_PARCELAMENTO) :
                   S1 <= j /\ j + Len(EM_PARCELAMENTO) <= S2
        /\ (Occ(text, rf_title) = {} \/ Occ(text, pgfn_title) = {}) => ~rf_parc
        /\ (Occ(text, rf_title) # {} /\ Occ(text, pgfn_title) # {} /\ S1 >= S2)
               => ~rf_parc

\* both titles, the RF title after the PGFN title, "EM PARCELAMENTO" after both
C9_Witness ==
    /\ Done
    /\ Occ(text, rf_title) # {}
    /\ Occ(text, pgfn_title) # {}
    /\ S1 >= S2
    /\ \E j \in Occ(text, EM_PARCELAMENTO) : j >= S1
    /\ ~rf_parc

----------------------------------------------------------------------------
(* The mapping parser *)

\* the index of the first tab of a line that has one
FirstTab(line) ==
    CHOOSE i \in 1..Len(line) : line[i] = TAB /\ \A j \in 1..(i - 1) : line[j] # TAB

HasTab(line) == \E i \in 1..Len(line) : line[i] = TAB

FieldOne(line) == SubSeq(line, 1, FirstTab(line) - 1)

\* from the first tab to the next tab, or to the end of the line
FieldTwo(line) ==
    LET rest == SubSeq(line, FirstTab(line) + 1, Len(line))
    IN  IF HasTab(rest) THEN SubSeq(rest, 1, FirstTab(rest) - 1) ELSE rest

RECURSIVE EntriesOf(_)
\* the mapping the lines build: nothing for a line without a tab, one entry
\* digits(field two) -> trimmed field one for a line with a tab
EntriesOf(lines) ==
    IF lines = <<>> THEN NoDict
    ELSE LET before == EntriesOf(SubSeq(lines, 1, Len(lines) - 1))
             line == lines[Len(lines)]
         IN  IF HasTab(line)
             THEN DictSet(before, DigitsOnly(FieldTwo(line)), Strip(FieldOne(line)))
             ELSE before

\* C1: parsing never fails, and after any number of lines the mapping holds no
\* entry for a line without a tab and exactly the entry digits(field two) ->
\* trimmed field one for every line with at least one tab.
C1_MappingParse ==
    pc \in {"parse", "parse_done", "parse_raised"} =>
        /\ pc # "parse_raised"
        /\ mapping = EntriesOf(SubSeq(SplitLines(mapping_text), 1, pos))

----------------------------------------------------------------------------
(* The identifier resolver *)

\* the 0-based starts of the 14-digit substrings of a filename
Starts14In(f) ==
    {i \in 0..(Len(f) - 14) : \A k \in 1..14 : IsDigit(f[i + k])}

Sub14In(f, i) == SubSeq(f, i + 1, i + 14)

\* the leftmost 14-digit substring of a filename that has one
Leftmost14(f) == Sub14In(f, Lowest(Starts14In(f)))

Starts14 == Starts14In(filename)

Sub14(i) == Sub14In(filename, i)

\* C2 as stated: without a run of 14 digits the company is "Desconhecida"; with
\* any 14-digit substring that is a key, the company is the name mapped to it.
C2_AnySubstring ==
    pc = "resolve_done" =>
        /\ Starts14 = {} => empresa = Desconhecida
        /\ \A i \in Starts14 : Sub14(i) \in DOMAIN mapping => empresa = mapping[Sub14(i)]

\* C2 amended: without a run of 14 digits the company is "Desconhecida"; when
\* the leftmost 14-digit substring is a key, the company is the name mapped to
\* it, however many digits or runs follow.
C2_LeftmostSubstring ==
    pc = "resolve_done" =>
        /\ Starts14 = {} => empresa = Desconhecida
        /\ (Starts14 # {} /\ Sub14(Lowest(Starts14)) \in DOMAIN mapping)
               => empresa = mapping[Sub14(Lowest(Starts14))]

\* more than 14 consecutive digits, the leftmost 14 of them a key
C2_Witness ==
    /\ pc = "resolve_done"
    /\ Cardinality(Starts14) >= 2
    /\ Sub14(Lowest(Starts14)) \in DOMAIN mapping
    /\ empresa = mapping[Sub14(Lowest(Starts14))]
    /\ empresa # Desconhecida

----------------------------------------------------------------------------
(* One run of main() *)

\* the entries of the archive the loop processes, by their place in it
PdfEntries == {i \in 1..Len(zip_file) : IsPdfEntry(zip_file[i])}

\* the place in results of the result of entry i
Rank(i) == Cardinality({j \in PdfEntries : j <= i})

\* entry i has no 14-digit substring, or its leftmost one is no key
NoKey(i) ==
    \/ Starts14In(zip_file[i].filename) = {}
    \/ Leftmost14(zip_file[i].filename) \notin DOMAIN mapping

KnownResults == {k \in DOMAIN results : results[k].empresa # Desconhecida}

Companies == {results[k].empresa : k \in KnownResults}

ReportsOf(n) == {k \in DOMAIN results : results[k].empresa = n}

RenamedAs(n) == {k \in DOMAIN zip_out : zip_out[k].name = RENOMEADOS \o n \o DOT_PDF}

StartsWith(s, prefix) ==
    Len(s) >= Len(prefix) /\ SubSeq(s, 1, Len(prefix)) = prefix

UnderRenomeados == {k \in DOMAIN zip_out : StartsWith(zip_out[k].name, RENOMEADOS)}

UnderNaoEncontrados ==
    {k \in DOMAIN zip_out : StartsWith(zip_out[k].name, NAO_ENCONTRADOS)}

C6_UnknownRouting ==
    pc = "done" =>
        LET keyed == Cardinality({j \in PdfEntries : ~NoKey(j)})
        IN  /\ Len(csv) <= keyed
            /\ Len(pdf_table) - 1 <= keyed
            /\ Cardinality(UnderRenomeados) <= keyed
            /\ \A i \in PdfEntries :
                   NoKey(i) =>
                       /\ results[Rank(i)].empresa = Desconhecida
                       /\ Cardinality({k \in DOMAIN zip_out :
                              zip_out[k] =
                                  [name |-> NAO_ENCONTRADOS \o zip_file[i].filename,
                                   data |-> zip_file[i].data]})
                              = Cardinality({j \in PdfEntries : zip_file[j] = zip_file[i]})

\* C6 on the archives whose entry names are all different
C6_WithDistinctNames ==
    (\A i, j \in 1..Len(zip_file) :
         zip_file[i].filename = zip_file[j].filename => i = j)
        => C6_UnknownRouting


\* C7: when two or more matched reports of a run have the same company, the
\* output archive holds a single entry renomeados/{company}.pdf, with the bytes
\* of the last of them.
C7_LastWriteWins ==
    pc = "done" =>
        \A n \in Companies :
            Cardinality(ReportsOf(n)) >= 2 =>
                LET written == {k \in DOMAIN matched_files :
                                   matched_files[k][1] = n \o DOT_PDF}
                    last == CHOOSE k \in written : \A j \in written : j <= k
                IN  /\ Cardinality(RenamedAs(n)) = 1
                    /\ \A k \in RenamedAs(n) : zip_out[k].data = matched_files[last][2]

\* the results the archive and the mapping determine, whatever generate_pdf does
ExpectedResults ==
    LET entries == PdfEntries
    IN  [k \in 1..Cardinality(entries) |->
            result_of(zip_file[Nth(entries, k)], zip_file, mapping)]

\* the files of one bucket that the archive and these results determine
ExpectedFiles(known) ==
    LET of == {k \in DOMAIN results : (results[k].empresa # Desconhecida) = known}
        entries == PdfEntries
    IN  [j \in 1..Cardinality(of) |->
            LET k == Nth(of, j)
                info == zip_file[Nth(entries, k)]
            IN  <<IF known THEN results[k].empresa \o DOT_PDF ELSE info.filename,
                  ZipRead(zip_file, info.filename)>>]

\* C8: when generate_pdf raises, the error is shown, the run goes on, the CSV was
\* offered before with the rows the inputs determine, the ZIP is built and
\* offered with the entries the inputs determine, and only the PDF is not offered.
C8_PdfFailureIsolated ==
    /\ pc \in {"pdf", "zip", "done"} =>
           /\ "csv" \in offered
           /\ csv = dataframe_rows(known_results_of(results))
    /\ pc = "done" =>
           /\ results = ExpectedResults
           /\ "zip" \in offered
           /\ zip_out = zip_written(ExpectedFiles(TRUE), ExpectedFiles(FALSE))
           /\ "pdf" \in offered <=> ~error_shown
    /\ error_shown => pc \in {"zip", "done"} /\ "pdf" \notin offered

C8_Witness ==
    /\ pc = "done"
    /\ error_shown
    /\ csv # <<>>
    /\ UnderRenomeados # {}
    /\ UnderNaoEncontrados # {}
    /\ offered = {"csv", "zip"}

\* C10: an entry is in the matched bucket (a row of the table, the CSV and the
\* PDF, an entry under renomeados/) exactly when the leftmost 14-digit substring
\* of its filename is a key, whatever name the key maps to, and otherwise under
\* nao_encontrados/.
C10_RoutingByKey ==
    pc = "done" =>
        LET keyed == Cardinality({j \in PdfEntries : ~NoKey(j)})
        IN  /\ Len(csv) = keyed
            /\ Len(pdf_table) - 1 = keyed
            /\ Cardinality(UnderRenomeados) = keyed
            /\ Cardinality(UnderNaoEncontrados) = Cardinality(PdfEntries) - keyed
            /\ \A i \in PdfEntries :
                   (results[Rank(i)].empresa # Desconhecida) <=> ~NoKey(i)

====
